---- MODULE Spec2Model ----
(***************************************************************************)
(* daemoncmd.py: start / stop / restart / status of a command run as a     *)
(* daemon and tracked by a pidfile.  Every command-line invocation is an   *)
(* operating-system process; start and restart fork two more generations.  *)
(* Each system call of the program is one step of the process making it.   *)
(***************************************************************************)
EXTENDS Integers, Sequences, FiniteSets, TLC

VARIABLES pidfile, proc, inv, last_pid

vars == <<pidfile, proc, inv, last_pid>>

(* ------------------------------ bounds --------------------------------- *)

\* the pid space is FirstPid .. FirstPid + NPids - 1 (one- and two-digit pids)
FirstPid == 8
NPids == 5
\* command-line invocations made in one behaviour
MaxInv == 2

Pids == FirstPid .. (FirstPid + NPids - 1)

(* --------------------------- program constants ------------------------- *)

START == "start"
STOP == "stop"
RESTART == "restart"
STATUS == "status"

Actions == {START, STOP, RESTART, STATUS}

(* ------------------- text of the pidfile: int() and format ------------- *)

Digits == <<"0", "1", "2", "3", "4", "5", "6", "7", "8", "9">>

IsDigit(c) == \E i \in 1..10 : Digits[i] = c

DigitVal(c) == (CHOOSE i \in 1..10 : Digits[i] = c) - 1

IsSpace(c) == c \in {" ", "\n"}

RECURSIVE LStrip(_)
LStrip(s) == IF s # <<>> /\ IsSpace(Head(s)) THEN LStrip(Tail(s)) ELSE s

RECURSIVE RStrip(_)
RStrip(s) ==
    IF s # <<>> /\ IsSpace(s[Len(s)]) THEN RStrip(SubSeq(s, 1, Len(s) - 1)) ELSE s

\* str.strip()
Strip(s) == RStrip(LStrip(s))

RECURSIVE DigitsVal(_)
DigitsVal(s) ==
    IF s = <<>> THEN 0 ELSE 10 * DigitsVal(SubSeq(s, 1, Len(s) - 1)) + DigitVal(s[Len(s)])

AllDigits(s) == s # <<>> /\ \A i \in 1..Len(s) : IsDigit(s[i])

\* int(text): an optional sign and at least one decimal digit, else ValueError
PyInt(s) ==
    LET t == Strip(s)
        signed == t # <<>> /\ Head(t) \in {"-", "+"}
        body == IF signed THEN Tail(t) ELSE t
    IN  IF AllDigits(body)
        THEN [ok |-> TRUE,
              v |-> IF signed /\ Head(t) = "-" THEN 0 - DigitsVal(body) ELSE DigitsVal(body)]
        ELSE [ok |-> FALSE, v |-> 0]

RECURSIVE NatStr(_)
NatStr(n) == IF n < 10 THEN <<Digits[n + 1]>> ELSE NatStr(n \div 10) \o <<Digits[(n % 10) + 1]>>

\* '{}\n'.format(pid)
PidLine(n) == (IF n < 0 THEN <<"-">> \o NatStr(0 - n) ELSE NatStr(n)) \o <<"\n">>

(* ------------------------------ pidfile -------------------------------- *)

NoFile == [exists |-> FALSE, text |-> <<>>]

File(t) == [exists |-> TRUE, text |-> t]

\* the value None of a pid variable is <<>>, the integer n is <<n>>
None == <<>>

\* a getpid that takes text int() rejects for no pid
getpid_lenient(pf) ==
    IF ~pf.exists THEN [err |-> FALSE, pid |-> None]
    ELSE LET r == PyInt(pf.text)
         IN  IF r.ok THEN [err |-> FALSE, pid |-> <<r.v>>] ELSE [err |-> FALSE, pid |-> None]

\* getpid(pidfile): None when there is no file, int() of its stripped text
\* otherwise; err stands for the ValueError int() raises
getpid(pf) ==
    IF ~pf.exists THEN [err |-> FALSE, pid |-> None]
    ELSE LET r == PyInt(pf.text)
         IN  IF r.ok THEN [err |-> FALSE, pid |-> <<r.v>>] ELSE [err |-> TRUE, pid |-> None]

\* truth value of a pid in "if pid" / "if not pid"
Truthy(pid) == pid # None /\ pid[1] # 0

(* --------------------------- process table ----------------------------- *)

Free == [st |-> "free", inv |-> 0, gen |-> 0, pc |-> "", phase |-> "", pid |-> None,
         pgid |-> 0, sid |-> 0, cwd |-> "", umask |-> "", stdio |-> "", term |-> FALSE]

\* a process of another user: signals to it fail with EPERM
Other(p) == [Free EXCEPT !.st = "other", !.pgid = p, !.sid = p]

Alive(p) == p \in Pids /\ proc[p].st # "free"

Mine(p) == Alive(p) /\ proc[p].st # "other"

\* the processes os.kill(pid, sig) addresses: one process for pid > 0, the
\* process group -pid for pid < -1, every process but the sender for pid = -1,
\* the sender's process group for pid = 0
KillTargets(self, pid) ==
    IF pid > 0 THEN {q \in Pids : q = pid /\ Alive(q)}
    ELSE IF pid = 0 THEN {q \in Pids : Alive(q) /\ proc[q].pgid = proc[self].pgid}
    ELSE IF pid = -1 THEN {q \in Pids : Alive(q) /\ q # self}
    ELSE {q \in Pids : Alive(q) /\ proc[q].pgid = 0 - pid}

\* the outcome of os.kill(pid, sig): ESRCH when it addresses no process, EPERM
\* when it may signal none of those it addresses
KillErrno(self, pid) ==
    LET T == KillTargets(self, pid)
    IN  IF T = {} THEN "ESRCH"
        ELSE IF \A q \in T : ~Mine(q) THEN "EPERM"
        ELSE "OK"

\* a probe that takes every OSError for "not running"
running_strict(self, pid) ==
    IF pid = None THEN FALSE
    ELSE KillErrno(self, pid[1]) = "OK"

\* a check that sends no probe: every pid there is counts as running
running_unprobed(self, pid) == pid # None

\* running(pid): False for None and for ESRCH, True in every other case
running(self, pid) ==
    IF pid = None THEN FALSE
    ELSE KillErrno(self, pid[1]) # "ESRCH"

(* ------------------------- invocation records -------------------------- *)

\* what one command-line invocation did: its action, the pids and the exit
\* statuses of its three process generations (-1: none yet), what it printed
\* and the signals it sent
NewInv(cmd, root, serial) ==
    [cmd |-> cmd, pids |-> <<root, 0, 0>>, exit |-> <<-1, -1, -1>>,
     out |-> "", outpid |-> None, msgs |-> {}, sigs |-> <<>>,
     wrote |-> FALSE, execd |-> FALSE, serial |-> serial]

Sig(to, sig, res) == [to |-> to, sig |-> sig, res |-> res]

Say(i, m) == [inv EXCEPT ![i].msgs = @ \cup {m}]

\* sys.exit(status), or the interpreter ending: the process is gone
ExitIn(iv, p, status) ==
    [iv EXCEPT ![proc[p].inv].exit[proc[p].gen + 1] = status]

Gone(pr, p) == [pr EXCEPT ![p] = Free]

At(p, pc) == p \in Pids /\ proc[p].st = "run" /\ proc[p].pc = pc

(* ------------------------------- Init ---------------------------------- *)

\* the pidfile path may name no file, a file written by an earlier run, or a
\* file with any other text
InitTexts ==
    {PidLine(n) : n \in {FirstPid, FirstPid + 1, FirstPid + 3}}
    \cup {PidLine(0 - (FirstPid + 1)), <<"0", "\n">>, <<"x", "\n">>}

Init ==
    /\ pidfile \in {NoFile} \cup {File(t) : t \in InitTexts}
    /\ proc = [p \in Pids |-> IF p = FirstPid THEN Other(p) ELSE Free]
    /\ inv = <<>>
    /\ last_pid = FirstPid

(* ------------------------------- main ---------------------------------- *)

\* a pid the kernel may give a new process: not in use as a pid, a process
\* group id or a session id
Unused(c) ==
    /\ c \in Pids
    /\ proc[c].st = "free"
    /\ \A q \in Pids : Alive(q) => proc[q].pgid # c /\ proc[q].sid # c

\* the kernel hands out pids in cyclic order after the last one it gave
After(c) == IF c > last_pid THEN c - last_pid ELSE c - last_pid + NPids

FreshPid(c) ==
    /\ Unused(c)
    /\ \A d \in Pids : Unused(d) => After(c) <= After(d)

\* an operator runs "daemoncmd.py <action> --pidfile P ..." as a new process
\* p; main() dispatches on the action
main(p, cmd) ==
    /\ Len(inv) < MaxInv
    /\ FreshPid(p)
    /\ proc' = [proc EXCEPT ![p] =
            [st |-> "run", inv |-> Len(inv) + 1, gen |-> 0, pc |-> "getpid",
             phase |-> IF cmd = RESTART THEN STOP ELSE cmd, pid |-> None,
             pgid |-> p, sid |-> 0, cwd |-> "launch", umask |-> "inherit",
             stdio |-> "inherited", term |-> FALSE]]
    /\ inv' = Append(inv, NewInv(cmd, p, \A i \in 1..Len(inv) : inv[i].exit[1] # -1))
    /\ last_pid' = p
    /\ UNCHANGED pidfile

\* test_cli: one caller runs status, start, status, restart, status, stop,
\* status, each with subprocess.check_output, and asserts on what status prints
Script == <<STATUS, START, STATUS, RESTART, STATUS, STOP, STATUS>>

Expected == <<"stopped", "", "running", "", "running", "", "stopped">>

\* check_output returns once the command has exited and every process that
\* inherited its stdout pipe has closed it or is gone; a nonzero status raises
\* CalledProcessError and a failed assert ends the test
Returned(i) ==
    /\ inv[i].exit[1] = 0
    /\ \A q \in Pids : Alive(q) /\ proc[q].inv = i => proc[q].stdio # "inherited"
    /\ Expected[i] # "" => inv[i].out = Expected[i]

FINALLY == "finally"

test_cli(p) ==
    /\ \A i \in 1..Len(inv) : inv[i].cmd # FINALLY
    /\ Len(inv) < Len(Script)
    /\ \A i \in 1..Len(inv) : Returned(i)
    /\ FreshPid(p)
    /\ LET cmd == Script[Len(inv) + 1]
       IN  /\ proc' = [proc EXCEPT ![p] =
                   [st |-> "run", inv |-> Len(inv) + 1, gen |-> 0, pc |-> "getpid",
                    phase |-> IF cmd = RESTART THEN STOP ELSE cmd, pid |-> None,
                    pgid |-> p, sid |-> 0, cwd |-> "launch", umask |-> "inherit",
                    stdio |-> "inherited", term |-> FALSE]]
           /\ inv' = Append(inv, NewInv(cmd, p, TRUE))
    /\ last_pid' = p
    /\ UNCHANGED pidfile

\* check_output has come back from command i with a nonzero status, or with
\* output the assert after it rejects
Failed(i) ==
    /\ inv[i].exit[1] # -1
    /\ \A q \in Pids : Alive(q) /\ proc[q].inv = i => proc[q].stdio # "inherited"
    /\ ~Returned(i)

\* test_cli, lines 76-79: when the last command has passed, or one has
\* failed, the "finally" block removes the pidfile
test_finally ==
    /\ \A i \in 1..Len(inv) : inv[i].cmd # FINALLY
    /\ \/ Len(inv) = Len(Script) /\ \A i \in 1..Len(inv) : Returned(i)
       \/ \E i \in 1..Len(inv) : Failed(i)
    /\ pidfile' = NoFile
    /\ inv' = Append(inv, [NewInv(FINALLY, 0, TRUE) EXCEPT !.exit = <<0, -1, -1>>])
    /\ UNCHANGED <<proc, last_pid>>

(* ------------------------------- status -------------------------------- *)

\* status, line 144: pid = getpid(pidfile)
status_getpid(p) ==
    /\ At(p, "getpid") /\ proc[p].phase = STATUS
    /\ LET r == getpid(pidfile)
           i == proc[p].inv
       IN  IF r.err
           THEN /\ proc' = Gone(proc, p)
                /\ inv' = ExitIn(Say(i, "ValueError"), p, 1)
           ELSE /\ proc' = [proc EXCEPT ![p].pid = r.pid, ![p].pc = "probe"]
                /\ inv' = inv
    /\ UNCHANGED <<pidfile, last_pid>>

\* status, lines 145-148: "if pid and running(pid)", print, return to main
status_report(p) ==
    /\ At(p, "probe") /\ proc[p].phase = STATUS
    /\ LET i == proc[p].inv
           pid == proc[p].pid
           probed == IF Truthy(pid)
                     THEN [inv EXCEPT ![i].sigs = Append(@, Sig(pid[1], "NULL", KillErrno(p, pid[1])))]
                     ELSE inv
           said == IF Truthy(pid) /\ running(p, pid)
                   THEN [probed EXCEPT ![i].out = "running", ![i].outpid = pid]
                   ELSE [probed EXCEPT ![i].out = "stopped"]
       IN  /\ inv' = ExitIn(said, p, 0)
           /\ proc' = Gone(proc, p)
    /\ UNCHANGED <<pidfile, last_pid>>

(* -------------------------------- stop --------------------------------- *)

\* stop returns: the stop action ends with status 0, restart goes on to start
stop_returns(p, iv) ==
    IF iv[proc[p].inv].cmd = STOP
    THEN /\ proc' = Gone(proc, p)
         /\ inv' = ExitIn(iv, p, 0)
    ELSE /\ proc' = [proc EXCEPT ![p].phase = START, ![p].pc = "getpid", ![p].pid = None]
         /\ inv' = iv

\* stop, lines 110-115: pid = getpid(pidfile); "if not pid": warn
stop_getpid(p) ==
    /\ At(p, "getpid") /\ proc[p].phase = STOP
    /\ LET r == getpid(pidfile)
           i == proc[p].inv
       IN  IF r.err
           THEN /\ proc' = Gone(proc, p)
                /\ inv' = ExitIn(Say(i, "ValueError"), p, 1)
           ELSE IF ~Truthy(r.pid)
           THEN stop_returns(p, Say(i, "WarnMissing"))
           ELSE /\ proc' = [proc EXCEPT ![p].pid = r.pid, ![p].pc = "probe"]
                /\ inv' = inv
    /\ UNCHANGED <<pidfile, last_pid>>

\* a stop that removes the stale pidfile it warns about
stop_probe_cleans(p) ==
    /\ At(p, "probe") /\ proc[p].phase = STOP
    /\ LET i == proc[p].inv
           pid == proc[p].pid
           probed == [inv EXCEPT ![i].sigs = Append(@, Sig(pid[1], "NULL", KillErrno(p, pid[1])))]
       IN  IF ~running(p, pid)
           THEN /\ stop_returns(p, [probed EXCEPT ![i].msgs = @ \cup {"WarnNotRunning"}])
                /\ pidfile' = NoFile
           ELSE /\ proc' = [proc EXCEPT ![p].pc = "kill"]
                /\ inv' = probed
                /\ pidfile' = pidfile
    /\ UNCHANGED last_pid

\* a stop that probes and then signals whatever the probe answered
stop_probe_unchecked(p) ==
    /\ At(p, "probe") /\ proc[p].phase = STOP
    /\ LET i == proc[p].inv
           pid == proc[p].pid
       IN  /\ proc' = [proc EXCEPT ![p].pc = "kill"]
           /\ inv' = [inv EXCEPT ![i].sigs = Append(@, Sig(pid[1], "NULL", KillErrno(p, pid[1])))]
    /\ UNCHANGED <<pidfile, last_pid>>

\* stop, lines 116-118: "elif not running(pid)": warn
stop_probe(p) ==
    /\ At(p, "probe") /\ proc[p].phase = STOP
    /\ LET i == proc[p].inv
           pid == proc[p].pid
           probed == [inv EXCEPT ![i].sigs = Append(@, Sig(pid[1], "NULL", KillErrno(p, pid[1])))]
       IN  IF ~running(p, pid)
           THEN stop_returns(p, [probed EXCEPT ![i].msgs = @ \cup {"WarnNotRunning"}])
           ELSE /\ proc' = [proc EXCEPT ![p].pc = "kill"]
                /\ inv' = probed
    /\ UNCHANGED <<pidfile, last_pid>>

\* stop, lines 120-128: os.kill(pid, SIGTERM); any OSError ends with status 1
stop_kill(p) ==
    /\ At(p, "kill") /\ proc[p].phase = STOP
    /\ LET i == proc[p].inv
           pid == proc[p].pid[1]
           e == KillErrno(p, pid)
           sent == [inv EXCEPT ![i].sigs = Append(@, Sig(pid, "TERM", e))]
       IN  IF e = "OK"
           THEN /\ proc' = [q \in Pids |->
                        IF q \in KillTargets(p, pid) /\ Mine(q)
                        THEN [proc[q] EXCEPT !.term = TRUE, !.pc = IF q = p THEN "sleep" ELSE @]
                        ELSE IF q = p THEN [proc[q] EXCEPT !.pc = "sleep"] ELSE proc[q]]
                /\ inv' = sent
           ELSE /\ proc' = Gone(proc, p)
                /\ inv' = ExitIn([sent EXCEPT ![i].msgs = @ \cup {"FailedToTerminate"}], p, 1)
    /\ UNCHANGED <<pidfile, last_pid>>

\* a stop that removes the pidfile once it has signalled the process
stop_sleep_removes(p) ==
    /\ At(p, "sleep") /\ proc[p].phase = STOP
    /\ stop_returns(p, inv)
    /\ pidfile' = NoFile
    /\ UNCHANGED last_pid

\* stop, line 124: time.sleep(1), then stop returns
stop_sleep(p) ==
    /\ At(p, "sleep") /\ proc[p].phase = STOP
    /\ stop_returns(p, inv)
    /\ UNCHANGED <<pidfile, last_pid>>

(* -------------------------------- start -------------------------------- *)

\* start, line 89: pid = getpid(pidfile)
start_getpid(p) ==
    /\ At(p, "getpid") /\ proc[p].phase = START
    /\ LET r == getpid(pidfile)
           i == proc[p].inv
       IN  IF r.err
           THEN /\ proc' = Gone(proc, p)
                /\ inv' = ExitIn(Say(i, "ValueError"), p, 1)
           ELSE /\ proc' = [proc EXCEPT ![p].pid = r.pid, ![p].pc = "probe"]
                /\ inv' = inv
    /\ UNCHANGED <<pidfile, last_pid>>

\* the abort without its sys.exit(1): the message is written and start goes on
start_guard_no_exit(p) ==
    /\ At(p, "probe") /\ proc[p].phase = START
    /\ LET i == proc[p].inv
           pid == proc[p].pid
           probed == IF Truthy(pid)
                     THEN [inv EXCEPT ![i].sigs = Append(@, Sig(pid[1], "NULL", KillErrno(p, pid[1])))]
                     ELSE inv
       IN  /\ proc' = [proc EXCEPT ![p].pc = "fork1"]
           /\ inv' = [probed EXCEPT ![i].msgs = @ \cup
                        IF Truthy(pid) /\ running(p, pid) THEN {"AlreadyRunning"} ELSE {"Starting"}]
    /\ UNCHANGED <<pidfile, last_pid>>

\* a guard that refuses to start whenever the pidfile holds a pid
start_guard_any_pid(p) ==
    /\ At(p, "probe") /\ proc[p].phase = START
    /\ LET i == proc[p].inv
           pid == proc[p].pid
           probed == IF Truthy(pid)
                     THEN [inv EXCEPT ![i].sigs = Append(@, Sig(pid[1], "NULL", KillErrno(p, pid[1])))]
                     ELSE inv
       IN  IF Truthy(pid)
           THEN /\ proc' = Gone(proc, p)
                /\ inv' = ExitIn([probed EXCEPT ![i].msgs = @ \cup {"AlreadyRunning"}], p, 1)
           ELSE /\ proc' = [proc EXCEPT ![p].pc = "fork1"]
                /\ inv' = [probed EXCEPT ![i].msgs = @ \cup {"Starting"}]
    /\ UNCHANGED <<pidfile, last_pid>>

\* start, lines 93-99: "if pid and running(pid)": abort with status 1
start_guard(p) ==
    /\ At(p, "probe") /\ proc[p].phase = START
    /\ LET i == proc[p].inv
           pid == proc[p].pid
           probed == IF Truthy(pid)
                     THEN [inv EXCEPT ![i].sigs = Append(@, Sig(pid[1], "NULL", KillErrno(p, pid[1])))]
                     ELSE inv
       IN  IF Truthy(pid) /\ running(p, pid)
           THEN /\ proc' = Gone(proc, p)
                /\ inv' = ExitIn([probed EXCEPT ![i].msgs = @ \cup {"AlreadyRunning"}], p, 1)
           ELSE /\ proc' = [proc EXCEPT ![p].pc = "fork1"]
                /\ inv' = [probed EXCEPT ![i].msgs = @ \cup {"Starting"}]
    /\ UNCHANGED <<pidfile, last_pid>>

(* ------------------------------ daemonize ------------------------------ *)

\* os.fork() in process p: child c is a copy of p that continues at pc
Forked(p, c, childpc) ==
    /\ proc' = [proc EXCEPT ![p].pc = "exit_parent",
                            ![c] = [proc[p] EXCEPT !.gen = @ + 1, !.pc = childpc, !.term = FALSE]]
    /\ inv' = [inv EXCEPT ![proc[p].inv].pids[proc[p].gen + 2] = c]
    /\ last_pid' = c

\* daemonize, lines 196-200: the first fork; OSError ends with status 1
daemonize_fork1(p, ok) ==
    /\ At(p, "fork1")
    /\ IF ok
       THEN \E c \in Pids : FreshPid(c) /\ Forked(p, c, "decouple")
       ELSE /\ proc' = Gone(proc, p)
            /\ inv' = ExitIn(Say(proc[p].inv, "Fork1Failed"), p, 1)
            /\ last_pid' = last_pid
    /\ UNCHANGED pidfile

\* a parent that waits for the child it forked before it exits
daemonize_parent_waits(p) ==
    /\ At(p, "exit_parent")
    /\ LET c == inv[proc[p].inv].pids[proc[p].gen + 2]
       IN  ~(Alive(c) /\ proc[c].inv = proc[p].inv)
    /\ proc' = Gone(proc, p)
    /\ inv' = ExitIn(inv, p, 0)
    /\ UNCHANGED <<pidfile, last_pid>>

\* daemonize, lines 201-202 and 215-216: "if pid > 0: sys.exit(0)"
daemonize_exit_parent(p) ==
    /\ At(p, "exit_parent")
    /\ proc' = Gone(proc, p)
    /\ inv' = ExitIn(inv, p, 0)
    /\ UNCHANGED <<pidfile, last_pid>>

\* daemonize, lines 205-207: chdir("/"), umask(0), setsid()
daemonize_decouple(p) ==
    /\ At(p, "decouple")
    /\ proc' = [proc EXCEPT ![p].cwd = "/", ![p].umask = "0", ![p].sid = p,
                            ![p].pgid = p, ![p].pc = "fork2"]
    /\ UNCHANGED <<pidfile, inv, last_pid>>

\* a daemonize with one fork only: the first child goes on to the redirection
daemonize_single_fork(p, ok) ==
    /\ At(p, "fork2")
    /\ IF ok
       THEN /\ proc' = [proc EXCEPT ![p].pc = "redirect"]
            /\ inv' = inv
       ELSE /\ proc' = Gone(proc, p)
            /\ inv' = ExitIn(Say(proc[p].inv, "Fork2Failed"), p, 1)
    /\ UNCHANGED <<pidfile, last_pid>>

\* daemonize, lines 210-214: the second fork; OSError ends with status 1
daemonize_fork2(p, ok) ==
    /\ At(p, "fork2")
    /\ IF ok
       THEN \E c \in Pids : FreshPid(c) /\ Forked(p, c, "redirect")
       ELSE /\ proc' = Gone(proc, p)
            /\ inv' = ExitIn(Say(proc[p].inv, "Fork2Failed"), p, 1)
            /\ last_pid' = last_pid
    /\ UNCHANGED pidfile

\* daemonize, lines 223-242: open the three targets and dup2 them onto the
\* standard streams; a target that cannot be opened raises IOError
daemonize_redirect(p, ok) ==
    /\ At(p, "redirect")
    /\ IF ok
       THEN /\ proc' = [proc EXCEPT ![p].stdio = "files", ![p].pc = "setpid_open"]
            /\ inv' = inv
       ELSE /\ proc' = Gone(proc, p)
            /\ inv' = ExitIn(Say(proc[p].inv, "IOError"), p, 1)
    /\ UNCHANGED <<pidfile, last_pid>>

(* -------------------------- daemonize_command -------------------------- *)

\* text written at the end of the old content, as in append mode
Overlay_append(old, new) == old \o new

\* text written at offset 0 over the old content of a file
Overlay(old, new) == new \o SubSeq(old, Len(new) + 1, Len(old))

\* setpid, line 261: open(pidfile, 'w') creates or truncates the file
setpid_open(p, ok) ==
    /\ At(p, "setpid_open")
    /\ IF ok
       THEN /\ pidfile' = File(<<>>)
            /\ proc' = [proc EXCEPT ![p].pc = "setpid_write"]
            /\ inv' = inv
       ELSE /\ pidfile' = pidfile
            /\ proc' = Gone(proc, p)
            /\ inv' = ExitIn(Say(proc[p].inv, "IOError"), p, 1)
    /\ UNCHANGED last_pid

\* the pid taken before daemonize() was called: the caller's
setpid_of_caller(p) ==
    /\ At(p, "setpid_write")
    /\ pidfile' = IF pidfile.exists
                  THEN File(Overlay(pidfile.text, PidLine(inv[proc[p].inv].pids[1])))
                  ELSE pidfile
    /\ proc' = [proc EXCEPT ![p].pc = "exec"]
    /\ inv' = [inv EXCEPT ![proc[p].inv].wrote = TRUE]
    /\ UNCHANGED last_pid

\* setpid(os.getpid(), pidfile), line 262: the line reaches the file when the
\* "with" block closes it (a file removed since the open stays removed)
setpid(p) ==
    /\ At(p, "setpid_write")
    /\ pidfile' = IF pidfile.exists THEN File(Overlay(pidfile.text, PidLine(p))) ELSE pidfile
    /\ proc' = [proc EXCEPT ![p].pc = "exec"]
    /\ inv' = [inv EXCEPT ![proc[p].inv].wrote = TRUE]
    /\ UNCHANGED last_pid

\* daemonize_command, line 175: os.execvp replaces the image and keeps the
\* pid; when it fails OSError ends the process with status 1
execvp(p, ok) ==
    /\ At(p, "exec")
    /\ IF ok
       THEN /\ proc' = [proc EXCEPT ![p].st = "cmd", ![p].pc = "cmd"]
            /\ inv' = [inv EXCEPT ![proc[p].inv].execd = TRUE]
       ELSE /\ proc' = Gone(proc, p)
            /\ inv' = ExitIn(Say(proc[p].inv, "ExecFailed"), p, 1)
    /\ UNCHANGED <<pidfile, last_pid>>

(* ----------------------------- environment ----------------------------- *)

\* the command the daemon runs ends by itself
command_exits(p) ==
    /\ p \in Pids /\ proc[p].st = "cmd"
    /\ proc' = Gone(proc, p)
    /\ inv' = ExitIn(inv, p, 0)
    /\ UNCHANGED <<pidfile, last_pid>>

\* a delivered SIGTERM ends the process it was sent to
sigterm(p) ==
    /\ Mine(p) /\ proc[p].term
    /\ proc' = Gone(proc, p)
    /\ inv' = ExitIn(inv, p, 143)
    /\ UNCHANGED <<pidfile, last_pid>>

(* ------------------------------ behaviours ----------------------------- *)

\* the steps of the processes of an invocation, and of what they started
Step ==
    \/ \E p \in Pids : status_getpid(p)
    \/ \E p \in Pids : status_report(p)
    \/ \E p \in Pids : stop_getpid(p)
    \/ \E p \in Pids : stop_probe(p)
    \/ \E p \in Pids : stop_kill(p)
    \/ \E p \in Pids : stop_sleep(p)
    \/ \E p \in Pids : start_getpid(p)
    \/ \E p \in Pids : start_guard(p)
    \/ \E p \in Pids, ok \in BOOLEAN : daemonize_fork1(p, ok)
    \/ \E p \in Pids : daemonize_exit_parent(p)
    \/ \E p \in Pids : daemonize_decouple(p)
    \/ \E p \in Pids, ok \in BOOLEAN : daemonize_fork2(p, ok)
    \/ \E p \in Pids, ok \in BOOLEAN : daemonize_redirect(p, ok)
    \/ \E p \in Pids, ok \in BOOLEAN : setpid_open(p, ok)
    \/ \E p \in Pids : setpid(p)
    \/ \E p \in Pids, ok \in BOOLEAN : execvp(p, ok)
    \/ \E p \in Pids : command_exits(p)
    \/ \E p \in Pids : sigterm(p)

Next ==
    \/ \E p \in Pids, cmd \in Actions : main(p, cmd)
    \/ Step

\* any operators, any commands, not waiting for one another
Spec == Init /\ [][Next]_vars

\* the steps of the processes of start and stop commands, and the delivery of
\* the signals stop sends
Controller ==
    \/ \E p \in Pids : stop_getpid(p)
    \/ \E p \in Pids : stop_probe(p)
    \/ \E p \in Pids : stop_kill(p)
    \/ \E p \in Pids : stop_sleep(p)
    \/ \E p \in Pids : start_getpid(p)
    \/ \E p \in Pids : start_guard(p)
    \/ \E p \in Pids, ok \in BOOLEAN : daemonize_fork1(p, ok)
    \/ \E p \in Pids : daemonize_exit_parent(p)
    \/ \E p \in Pids : daemonize_decouple(p)
    \/ \E p \in Pids, ok \in BOOLEAN : daemonize_fork2(p, ok)
    \/ \E p \in Pids, ok \in BOOLEAN : daemonize_redirect(p, ok)
    \/ \E p \in Pids, ok \in BOOLEAN : setpid_open(p, ok)
    \/ \E p \in Pids : setpid(p)
    \/ \E p \in Pids, ok \in BOOLEAN : execvp(p, ok)
    \/ \E p \in Pids : sigterm(p)

NextFair ==
    \/ \E p \in Pids, cmd \in {START, STOP} : main(p, cmd)
    \/ Controller
    \/ \E p \in Pids : command_exits(p)

\* the scheduler lets every process that can run take its next step, and the
\* kernel delivers a pending signal; no statement of the program blocks
\* (sleep(1) ends by itself). Nothing says that an operator runs a command or
\* that the daemon's command ever ends. The steps of a run being finitely
\* many, one condition on the steps of all processes says as much as one
\* condition for each process
Fairness == WF_vars(Controller)

\* starts and stops by any operators, every process scheduled
SpecFair == Init /\ [][NextFair]_vars /\ Fairness

InitTest ==
    /\ pidfile = NoFile
    /\ proc = [p \in Pids |-> IF p = FirstPid THEN Other(p) ELSE Free]
    /\ inv = <<>>
    /\ last_pid = FirstPid

NextTest ==
    \/ \E p \in Pids : test_cli(p)
    \/ test_finally
    \/ Step

\* the repository's test: one caller, one command after the other
SpecTest == InitTest /\ [][NextTest]_vars

(* ============================== the claims ============================= *)

\* process p made a step of the program in this transition (it was neither
\* ended by a signal nor merely marked by one)
Ran(p) ==
    /\ p \in Pids /\ proc[p].st = "run"
    /\ proc'[p] # proc[p]
    /\ proc'[p] # [proc[p] EXCEPT !.term = TRUE]
    /\ inv'[proc[p].inv].exit[proc[p].gen + 1] # 143

OthersSame(p) == \A q \in Pids \ {p} : proc'[q] = proc[q]

Terms(sigs) == {k \in 1..Len(sigs) : sigs[k].sig = "TERM"}

Finished(i) == inv[i].exit[1] # -1

\* the daemon started by invocation j is running the command and the pidfile
\* names it
Tracked(j) ==
    /\ inv[j].execd
    /\ Alive(inv[j].pids[3]) /\ proc[inv[j].pids[3]].inv = j
    /\ pidfile = File(PidLine(inv[j].pids[3]))

(* ---- C1 ---- *)

GuardSeesRunning(p) ==
    /\ At(p, "probe") /\ proc[p].phase = START /\ Ran(p)
    /\ Truthy(proc[p].pid) /\ running(p, proc[p].pid)

AbortedCleanly(p) ==
    LET i == proc[p].inv
    IN  /\ "AlreadyRunning" \in inv'[i].msgs /\ "Starting" \notin inv'[i].msgs
        /\ inv'[i].exit = <<1, -1, -1>>
        /\ inv'[i].pids = <<p, 0, 0>> /\ ~inv'[i].wrote /\ ~inv'[i].execd
        /\ Terms(inv'[i].sigs) = Terms(inv[i].sigs)
        /\ proc'[p] = Free /\ OthersSame(p)
        /\ pidfile' = pidfile
        /\ \A j \in 1..Len(inv) : j # i => inv'[j] = inv[j]

\* C1: when start has read a pid and its probe of that pid reports running, the
\* step start then takes is the abort: the "already running" error, exit status
\* 1, no fork, no pidfile write, no exec and no SIGTERM, the pidfile and all
\* other processes unchanged
C1_StartGuard == [][\A p \in Pids : GuardSeesRunning(p) => AbortedCleanly(p)]_vars

\* a start was refused because the daemon of an earlier start is running, and
\* that daemon and the pidfile are as they were
C1_Witness ==
    \E i \in 1..Len(inv), j \in 1..Len(inv) :
        /\ j < i /\ inv[i].cmd = START
        /\ "AlreadyRunning" \in inv[i].msgs /\ inv[i].exit[1] = 1
        /\ Tracked(j)

(* ---- C2 ---- *)

\* the status invocation of process p ends in this transition
StatusEnds(p) ==
    /\ p \in Pids /\ proc[p].st = "run" /\ proc[p].phase = STATUS /\ Ran(p)
    /\ inv'[proc[p].inv].exit[1] # -1

\* invocation j was begun after the command before it, a start or restart, had
\* exited with status 0; nothing has failed in that command (no fork, open or
\* exec error) and none of its processes was ended by a signal or has run its
\* command to the end
FollowsSuccessful(j, cmd) ==
    /\ j > 1 /\ inv[j].serial
    /\ inv[j - 1].cmd = cmd /\ inv[j - 1].exit[1] = 0
    /\ inv[j - 1].msgs \subseteq {"Starting", "WarnMissing", "WarnNotRunning"}
    /\ inv[j - 1].exit[2] \in {-1, 0} /\ inv[j - 1].exit[3] = -1

\* C2: a status run after a start that exited with status 0 reports running
\* with the pid the pidfile holds, and that pid's probe is true (stated for the
\* starts in which nothing failed afterwards, the case most favourable to it)
C2_StatusAfterStart ==
    [][\A p \in Pids :
          StatusEnds(p) /\ FollowsSuccessful(proc[p].inv, START) =>
              LET j == proc[p].inv
              IN  /\ inv'[j].out = "running"
                  /\ inv'[j].outpid = getpid(pidfile).pid
                  /\ running(p, inv'[j].outpid)]_vars

(* ---- C3 ---- *)

\* p has come out of daemonize: second child, in the session its parent made,
\* streams redirected, program image not yet replaced
Detached(p) ==
    LET i == proc[p].inv
    IN  /\ proc[p].st = "run" /\ proc[p].gen = 2
        /\ p = inv[i].pids[3] /\ ~inv[i].execd
        /\ proc[p].sid = inv[i].pids[2] /\ proc[p].sid # p
        /\ proc[p].cwd = "/" /\ proc[p].umask = "0" /\ proc[p].stdio = "files"

\* C3: every change of the pidfile is made by the second child of a start,
\* after daemonize has returned in it and before its exec, and the pid the
\* pidfile then holds is that process's own, not its caller's or its parent's
C3_PidWrittenByDaemon ==
    [][pidfile' # pidfile =>
          \E p \in Pids :
              /\ Ran(p) /\ Detached(p) /\ OthersSame(p)
              /\ proc'[p].st = "run" /\ proc'[p].gen = 2
              /\ \/ pidfile' = File(<<>>)
                 \/ /\ getpid(pidfile') = [err |-> FALSE, pid |-> <<p>>]
                    /\ inv'[proc[p].inv].wrote]_vars

\* the second child has written its pid and is about to exec; the caller and
\* the first child have exited
C3_Witness ==
    \E i \in 1..Len(inv) :
        /\ inv[i].wrote /\ inv[i].exit = <<0, 0, -1>>
        /\ At(inv[i].pids[3], "exec") /\ proc[inv[i].pids[3]].inv = i
        /\ pidfile = File(PidLine(inv[i].pids[3]))
        /\ inv[i].pids[3] \notin {inv[i].pids[1], inv[i].pids[2]}

(* ---- C4 ---- *)

\* C4: a start begun as soon as the start before it has exited with status 0
\* does not pass the guard: it ends with the "already running" error (stated
\* for the first starts in which nothing fails, the case most favourable)
C4_SecondStartRefused ==
    \A j \in 1..Len(inv) :
        inv[j].cmd = START /\ FollowsSuccessful(j, START) =>
            /\ "Starting" \notin inv[j].msgs
            /\ Finished(j) => inv[j].msgs = {"AlreadyRunning"}

(* ---- C5 ---- *)

Warnings == {"WarnMissing", "WarnNotRunning"}

\* the stop invocation of p finds no pidfile (at its read) or a pid that is
\* not running (at its probe) in this transition
StopFindsStopped(p) ==
    /\ p \in Pids /\ Ran(p)
    /\ proc[p].phase = STOP /\ inv[proc[p].inv].cmd = STOP
    /\ \/ proc[p].pc = "getpid" /\ ~pidfile.exists
       \/ proc[p].pc = "probe" /\ ~running(p, proc[p].pid)

\* C5: a stop that finds no pidfile, or a pid that is not running, warns, sends
\* no SIGTERM, exits with status 0 and leaves the pidfile and every other
\* process as they were; a second stop then gives the same warning
C5_StopWhenStopped ==
    [][\A p \in Pids :
          StopFindsStopped(p) =>
              LET i == proc[p].inv
              IN  /\ inv'[i].msgs = IF proc[p].pc = "getpid" THEN {"WarnMissing"}
                                    ELSE {"WarnNotRunning"}
                  /\ Terms(inv'[i].sigs) = {}
                  /\ inv'[i].exit = <<0, -1, -1>> /\ inv'[i].pids = <<p, 0, 0>>
                  /\ proc'[p] = Free /\ OthersSame(p)
                  /\ pidfile' = pidfile
                  /\ \A j \in 1..Len(inv) : j # i => inv'[j] = inv[j]
                  /\ (i = 2 /\ Len(inv) = 2 /\ inv[1].cmd = STOP /\ Finished(1)
                        /\ inv[1].msgs \cap Warnings # {})
                     => inv'[2].msgs = inv[1].msgs]_vars

\* two stops, one after the other, of a pid that is not running: the same
\* warning twice, status 0 twice, the pidfile still there
C5_Witness ==
    /\ Len(inv) = 2 /\ inv[2].serial
    /\ \A i \in {1, 2} : /\ inv[i].cmd = STOP /\ inv[i].exit = <<0, -1, -1>>
                         /\ inv[i].msgs = {"WarnNotRunning"}
                         /\ Len(inv[i].sigs) = 1
    /\ pidfile.exists

(* ---- C6 ---- *)

\* C6: an existing pidfile is never removed, and its content changes only in
\* the setpid of a start (or of the start of a restart) whose daemonize has
\* returned; no stop, status or failing step changes it
C6_PidfileKept ==
    [][/\ pidfile.exists => pidfile'.exists
       /\ pidfile' # pidfile =>
            \E p \in Pids :
                /\ Ran(p) /\ proc[p].phase = START
                /\ inv[proc[p].inv].cmd \in {START, RESTART}
                /\ proc[p].pc \in {"setpid_open", "setpid_write"}
                /\ proc[p].stdio = "files"
                /\ inv'[proc[p].inv].exit = inv[proc[p].inv].exit]_vars

\* a stop has signalled the daemon a start had recorded, the daemon is gone,
\* and the pidfile still holds its pid
C6_Witness ==
    \E i \in 1..Len(inv), j \in 1..Len(inv) :
        /\ i < j /\ inv[i].wrote /\ inv[i].exit[3] = 143
        /\ inv[j].cmd = STOP /\ inv[j].exit[1] = 0 /\ Terms(inv[j].sigs) # {}
        /\ pidfile = File(PidLine(inv[i].pids[3]))

(* ---- C7 ---- *)

StatusReads(p) == At(p, "getpid") /\ proc[p].phase = STATUS /\ Ran(p)

StatusReports(p) == At(p, "probe") /\ proc[p].phase = STATUS /\ Ran(p)

\* some process answers to the pid that was read
Answers(p, pid) == Truthy(pid) /\ KillTargets(p, pid[1]) # {}

\* C7: status takes the pid the pidfile holds (none when there is no file) and
\* prints running with that pid exactly when some process answers to it, and
\* stopped otherwise, then ends with status 0; its steps send no SIGTERM and
\* change neither the pidfile nor any other process
C7_StatusObserves ==
    [][\A p \in Pids :
          /\ StatusReads(p) /\ ~getpid(pidfile).err =>
                /\ proc'[p] = [proc[p] EXCEPT !.pid = IF pidfile.exists
                                                      THEN <<PyInt(pidfile.text).v>>
                                                      ELSE None,
                                              !.pc = "probe"]
                /\ OthersSame(p) /\ pidfile' = pidfile /\ inv' = inv
          /\ StatusReports(p) =>
                LET i == proc[p].inv
                    pid == proc[p].pid
                IN  /\ inv'[i].out = IF Answers(p, pid) THEN "running" ELSE "stopped"
                    /\ Answers(p, pid) => inv'[i].outpid = pid
                    /\ inv'[i].exit = <<0, -1, -1>> /\ inv'[i].pids = <<p, 0, 0>>
                    /\ Terms(inv'[i].sigs) = {} /\ ~inv'[i].wrote
                    /\ proc'[p] = Free /\ OthersSame(p)
                    /\ pidfile' = pidfile
                    /\ \A j \in 1..Len(inv) : j # i => inv'[j] = inv[j]]_vars

\* one status has printed stopped for a pidfile that does not exist, or another
\* has printed running with the pid of the daemon a start recorded
C7_Witness ==
    \E j \in 1..Len(inv) :
        /\ inv[j].cmd = STATUS /\ inv[j].exit[1] = 0
        /\ \E i \in 1..Len(inv) :
              /\ Tracked(i)
              /\ inv[j].out = "running" /\ inv[j].outpid = <<inv[i].pids[3]>>

(* ---- C8 ---- *)

\* p reads a pidfile whose text int() rejects in this transition
ReadsMalformed(p) ==
    /\ p \in Pids /\ Ran(p) /\ proc[p].pc = "getpid"
    /\ pidfile.exists /\ ~PyInt(pidfile.text).ok

\* C8: an operation that reads a pidfile whose content is not an integer ends
\* there with the parse error and status 1: no report, no "pid file is missing"
\* warning, no fork, no signal, no pidfile write (a restart may have warned or
\* signalled in its stop, before the read of its start)
C8_MalformedIsFatal ==
    [][\A p \in Pids :
          ReadsMalformed(p) =>
              LET i == proc[p].inv
              IN  /\ inv'[i].msgs = inv[i].msgs \cup {"ValueError"}
                  /\ "Starting" \notin inv'[i].msgs
                  /\ inv'[i].exit = <<1, -1, -1>> /\ inv'[i].out = ""
                  /\ inv'[i].pids = <<p, 0, 0>> /\ ~inv'[i].wrote
                  /\ inv'[i].sigs = inv[i].sigs
                  /\ inv[i].cmd # RESTART =>
                        inv'[i].sigs = <<>> /\ inv'[i].msgs = {"ValueError"}
                  /\ proc'[p] = Free /\ OthersSame(p)
                  /\ pidfile' = pidfile
                  /\ \A j \in 1..Len(inv) : j # i => inv'[j] = inv[j]]_vars

\* two different operations have failed on the same malformed pidfile
C8_Witness ==
    /\ Len(inv) = 2 /\ inv[1].cmd # inv[2].cmd
    /\ \A i \in {1, 2} : inv[i].msgs = {"ValueError"} /\ inv[i].exit = <<1, -1, -1>>
    /\ pidfile.exists /\ ~PyInt(pidfile.text).ok

(* ---- C9 ---- *)

\* C9: pidfile content that is an integer but not positive is a parse error,
\* and no probe or signal is ever addressed to a pid <= 0
C9_PositivePidOnly ==
    [][/\ \A p \in Pids :
             (/\ Ran(p) /\ proc[p].pc = "getpid"
              /\ pidfile.exists /\ PyInt(pidfile.text).ok /\ PyInt(pidfile.text).v <= 0)
             => "ValueError" \in inv'[proc[p].inv].msgs
       /\ \A i \in 1..Len(inv') : \A k \in 1..Len(inv'[i].sigs) : inv'[i].sigs[k].to > 0]_vars

(* ---- C10 ---- *)

\* C10: a status run after a restart that stopped a running daemon and exited
\* with status 0 reports running with the pid the pidfile holds, and the pid
\* the restart signalled, when it is another one, no longer answers (stated
\* for the restarts in which nothing fails afterwards)
C10_StatusAfterRestart ==
    [][\A p \in Pids :
          (/\ StatusEnds(p) /\ FollowsSuccessful(proc[p].inv, RESTART)
           /\ Terms(inv[proc[p].inv - 1].sigs) # {}) =>
              LET j == proc[p].inv
                  old == {inv[j - 1].sigs[k].to : k \in Terms(inv[j - 1].sigs)}
              IN  /\ inv'[j].out = "running"
                  /\ inv'[j].outpid = getpid(pidfile).pid
                  /\ running(p, inv'[j].outpid)
                  /\ \A o \in old : inv'[j].outpid # <<o>> => ~running(p, <<o>>)]_vars

(* ---- C11 ---- *)

Failures == {"Fork1Failed", "Fork2Failed", "IOError", "ExecFailed"}

\* nothing has failed in any command so far (no fork, open or exec error) and
\* no daemon has run its command to the end
NothingFailed ==
    \A i \in 1..Len(inv) : inv[i].msgs \cap Failures = {} /\ inv[i].exit[3] # 0

\* check_output has come back from command i
CameBack(i) ==
    /\ inv[i].cmd # FINALLY /\ Finished(i)
    /\ \A q \in Pids : Alive(q) /\ proc[q].inv = i => proc[q].stdio # "inherited"

\* C11: in the sequence status, start, status, restart, status, stop, status
\* run by one caller from no pidfile, every command exits with status 0, the
\* statuses print stopped, running, running, stopped, the pid N the first
\* "running" names is the daemon of the start, and N is dead at the last status
\* (stated for the runs in which nothing fails)
C11_Lifecycle ==
    NothingFailed =>
        \A i \in 1..Len(inv) :
            CameBack(i) =>
                /\ inv[i].exit[1] = 0
                /\ Expected[i] # "" => inv[i].out = Expected[i]
                /\ i = 3 => inv[3].outpid = <<inv[2].pids[3]>>
                /\ i = 7 => inv[2].exit[3] # -1

(* ---- C12 ---- *)

\* the stop of process p, whose probe reported running, signals in this
\* transition
StopSignals(p) == At(p, "kill") /\ proc[p].phase = STOP /\ Ran(p)

\* C12: a stop whose probe reported running sends one SIGTERM to the pid it
\* read and then pauses; when the delivery fails it reports the failure and
\* exits with status 1, unless the failure is "no such process" (the process
\* went away after the probe), which is no failure exit
C12_StopDelivery ==
    [][\A p \in Pids :
          StopSignals(p) =>
              LET i == proc[p].inv
                  e == KillErrno(p, proc[p].pid[1])
              IN  /\ inv'[i].sigs = Append(inv[i].sigs, Sig(proc[p].pid[1], "TERM", e))
                  /\ e = "OK" => proc'[p].pc = "sleep" /\ inv'[i].exit[1] = -1
                  /\ e = "EPERM" => /\ "FailedToTerminate" \in inv'[i].msgs
                                    /\ inv'[i].exit[1] = 1
                  /\ e = "ESRCH" => inv'[i].exit[1] # 1]_vars

(* ---- C13 ---- *)

ForkFailures == {"Fork1Failed", "Fork2Failed"}

\* C13: when a fork of daemonize has failed, the failure is reported, the
\* process that invoked start does not end with status 0, and the start has
\* no effect: no second child, no pidfile write, no exec
C13_ForkFailureFatal ==
    \A i \in 1..Len(inv) :
        inv[i].msgs \cap ForkFailures # {} =>
            /\ inv[i].exit[1] # 0
            /\ inv[i].pids[3] = 0 /\ ~inv[i].wrote /\ ~inv[i].execd

(* ---- C14 ---- *)

\* where process q of a start stands in daemonize, and what it has done so far
InProtocol(q) ==
    LET i == proc[q].inv
        g == proc[q].gen
        pc == proc[q].pc
    IN  /\ pc = "fork1" => g = 0 /\ proc[q].cwd = "launch" /\ proc[q].sid = 0
        /\ pc = "exit_parent" => g \in {0, 1} /\ inv[i].pids[g + 2] # 0
        /\ g = 0 => pc \in {"getpid", "probe", "kill", "sleep", "fork1", "exit_parent"}
        /\ pc = "decouple" =>
              /\ g = 1 /\ proc[q].sid = 0
              /\ proc[q].cwd = "launch" /\ proc[q].umask = "inherit"
        /\ g = 1 => /\ pc \in {"decouple", "fork2", "exit_parent"}
                    /\ q = inv[i].pids[2]
                    /\ proc[q].stdio = "inherited"
        /\ g = 1 /\ pc # "decouple" =>
              /\ proc[q].sid = q /\ proc[q].pgid = q
              /\ proc[q].cwd = "/" /\ proc[q].umask = "0"
        /\ g = 2 =>
              /\ q = inv[i].pids[3]
              /\ pc \in {"redirect", "setpid_open", "setpid_write", "exec", "cmd"}
              /\ proc[q].sid = inv[i].pids[2] /\ proc[q].sid # q
              /\ proc[q].cwd = "/" /\ proc[q].umask = "0"
              /\ proc[q].stdio = IF pc = "redirect" THEN "inherited" ELSE "files"

\* C14: daemonize returns in the second child only; the caller and the first
\* child, once they have forked, exit with status 0 as their next step; the
\* order is fork, chdir + umask + setsid in the first child, fork, redirection,
\* return; the process that comes out is in the first child's session and is
\* never a session leader
C14_DaemonizeProtocol ==
    [][/\ \A q \in Pids : proc'[q].st \in {"run", "cmd"} => InProtocol(q)'
       /\ \A p \in Pids :
             Ran(p) /\ proc[p].pc = "exit_parent" =>
                 /\ proc'[p] = Free /\ OthersSame(p)
                 /\ inv'[proc[p].inv].exit[proc[p].gen + 1] = 0
       /\ \A p \in Pids :
             Ran(p) /\ proc[p].pc = "redirect" /\ proc'[p].st = "run" =>
                 /\ inv[proc[p].inv].pids[3] = p
                 /\ proc'[p].pc = "setpid_open"]_vars

\* daemonize has just returned in the second child: the caller and the first
\* child have exited with status 0 and the first child's pid names the session
C14_Witness ==
    \E i \in 1..Len(inv) :
        LET q == inv[i].pids[3]
        IN  /\ inv[i].exit = <<0, 0, -1>>
            /\ At(q, "setpid_open") /\ proc[q].inv = i /\ proc[q].gen = 2
            /\ proc[q].sid = inv[i].pids[2] /\ ~Alive(inv[i].pids[2])
            /\ ~Alive(inv[i].pids[1])

(* ---- C15 ---- *)

\* the exec of the detached process p fails in this transition
ExecFails(p) == At(p, "exec") /\ Ran(p) /\ proc'[p].st # "cmd"

\* the guard of the start of p runs in this transition, on a pid that was read
\* from the pidfile and is not running
GuardSeesStale(p) ==
    /\ At(p, "probe") /\ proc[p].phase = START /\ Ran(p)
    /\ Truthy(proc[p].pid) /\ ~running(p, proc[p].pid)

\* C15: a failed exec ends the detached process with status 1 after its pid
\* was written, and the pidfile stays as it is, naming that dead pid when no
\* other start has come as far as the pidfile; a status whose pid is not
\* running prints stopped; a start whose pid is not running is not refused but
\* goes on to daemonize, and its setpid leaves the new process's pid in the
\* pidfile in place of the stale one
C15_StaleTolerated ==
    [][\A p \in Pids :
          LET i == proc[p].inv
          IN  /\ ExecFails(p) =>
                    /\ inv[i].wrote /\ inv'[i].exit[3] = 1
                    /\ proc'[p] = Free /\ OthersSame(p)
                    /\ pidfile' = pidfile
                    /\ (\A j \in 1..Len(inv) : j # i => inv[j].pids[3] = 0)
                          => /\ pidfile' = File(PidLine(p))
                             /\ \A q \in Pids : Alive(q)' => ~running(q, getpid(pidfile).pid)'
              /\ StatusReports(p) /\ ~running(p, proc[p].pid) =>
                    inv'[i].out = "stopped" /\ inv'[i].exit[1] = 0
              /\ GuardSeesStale(p) =>
                    /\ proc'[p] = [proc[p] EXCEPT !.pc = "fork1"]
                    /\ inv'[i].msgs = inv[i].msgs \cup {"Starting"}
                    /\ "AlreadyRunning" \notin inv'[i].msgs
                    /\ inv'[i].exit = <<-1, -1, -1>>
                    /\ pidfile' = pidfile
              /\ (At(p, "setpid_write") /\ Ran(p) /\ Truthy(proc[p].pid)) =>
                    /\ pidfile.exists => getpid(pidfile') = [err |-> FALSE, pid |-> <<p>>]]_vars

\* the exec of a first start failed and left its pid in the pidfile; a second
\* start found that pid not running, went on, and its daemon has replaced the
\* pid by its own and runs the command
C15_Witness ==
    /\ Len(inv) = 2
    /\ inv[1].wrote /\ inv[1].exit[3] = 1 /\ "ExecFailed" \in inv[1].msgs
    /\ inv[2].cmd = START /\ inv[2].serial
    /\ Len(inv[2].sigs) = 1
    /\ inv[2].sigs[1] = Sig(inv[1].pids[3], "NULL", "ESRCH")
    /\ Tracked(2) /\ inv[2].pids[3] # inv[1].pids[3]

(* ---- C16 ---- *)

\* p evaluates "pid and running(pid)" (start, status) or "not running(pid)"
\* (stop) in this transition
Probes(p) == At(p, "probe") /\ Ran(p)

\* what the caller of running() does when it took the answer for False
TakenForStopped(p) ==
    LET i == proc[p].inv
    IN  CASE proc[p].phase = START ->
                 /\ proc'[p] = [proc[p] EXCEPT !.pc = "fork1"]
                 /\ inv'[i].msgs = inv[i].msgs \cup {"Starting"}
          [] proc[p].phase = STATUS -> inv'[i].out = "stopped"
          [] OTHER -> "WarnNotRunning" \in inv'[i].msgs /\ inv'[i].sigs[Len(inv'[i].sigs)].sig = "NULL"

\* what the caller of running() does when it took the answer for True
TakenForRunning(p) ==
    LET i == proc[p].inv
    IN  CASE proc[p].phase = START ->
                 /\ proc'[p] = Free /\ inv'[i].exit = <<1, -1, -1>>
                 /\ "AlreadyRunning" \in inv'[i].msgs /\ "Starting" \notin inv'[i].msgs
                 /\ inv'[i].pids = <<p, 0, 0>>
          [] proc[p].phase = STATUS ->
                 inv'[i].out = "running" /\ inv'[i].outpid = proc[p].pid
          [] OTHER -> proc'[p] = [proc[p] EXCEPT !.pc = "kill"]

\* C16: the liveness check is False without a probe when there is no pid, False
\* when the null signal fails with "no such process", and True in every other
\* case, a probe that fails for another reason (EPERM) included; so a start
\* whose probe fails that way is refused and forks nothing
C16_ConservativeProbe ==
    [][\A p \in Pids :
          Probes(p) =>
              LET i == proc[p].inv
                  pid == proc[p].pid
              IN  IF ~Truthy(pid)
                  THEN inv'[i].sigs = inv[i].sigs /\ TakenForStopped(p)
                  ELSE LET e == KillErrno(p, pid[1])
                       IN  /\ inv'[i].sigs = Append(inv[i].sigs, Sig(pid[1], "NULL", e))
                           /\ IF e = "ESRCH" THEN TakenForStopped(p) ELSE TakenForRunning(p)]_vars

\* a start was refused because the probe of the recorded pid failed with EPERM,
\* and a status printed running for the same reason
C16_Witness ==
    /\ Len(inv) = 2
    /\ inv[1].cmd = START /\ inv[1].exit = <<1, -1, -1>>
    /\ inv[1].msgs = {"AlreadyRunning"}
    /\ inv[1].sigs = <<Sig(FirstPid, "NULL", "EPERM")>>
    /\ inv[2].cmd = STATUS /\ inv[2].out = "running"
    /\ inv[2].sigs = <<Sig(FirstPid, "NULL", "EPERM")>>

(* ---- C17 ---- *)

\* the second child of invocation i is alive and has written its pid
LiveWriter(i) ==
    /\ inv[i].wrote
    /\ Alive(inv[i].pids[3]) /\ proc[inv[i].pids[3]].inv = i /\ proc[inv[i].pids[3]].gen = 2

\* C17: nothing keeps two starts apart. When the daemon of one start writes
\* its pid while the daemon of another is alive and recorded, the write goes
\* through, the pidfile then names the writer and no longer the other, and the
\* other daemon stays as it is; with two such daemons alive the pidfile names
\* one of the two
C17_LastWriterOnly ==
    [][/\ \A p \in Pids :
             At(p, "setpid_write") /\ Ran(p) =>
                 /\ getpid(pidfile') = [err |-> FALSE, pid |-> <<p>>]
                 /\ OthersSame(p)
                 /\ \A j \in 1..Len(inv) :
                       j # proc[p].inv /\ LiveWriter(j) =>
                           LiveWriter(j)' /\ getpid(pidfile').pid # <<inv[j].pids[3]>>
       /\ \A i \in 1..Len(inv'), j \in 1..Len(inv') :
             (i # j /\ LiveWriter(i)' /\ LiveWriter(j)') =>
                 /\ ~getpid(pidfile').err
                 /\ getpid(pidfile').pid \in {<<inv'[i].pids[3]>>, <<inv'[j].pids[3]>>}]_vars

\* two starts, the second begun before the first had exited, both found no
\* pid to probe and printed "Starting process."; both daemons run their
\* command, and the pidfile names the second to write only
C17_Witness ==
    /\ Len(inv) = 2 /\ ~inv[2].serial
    /\ \A i \in {1, 2} :
          /\ inv[i].cmd = START /\ inv[i].msgs = {"Starting"} /\ inv[i].sigs = <<>>
          /\ inv[i].execd /\ LiveWriter(i) /\ proc[inv[i].pids[3]].st = "cmd"
    /\ inv[1].pids[3] # inv[2].pids[3]
    /\ \E i \in {1, 2} : pidfile = File(PidLine(inv[i].pids[3]))

(* ---- C18 ---- *)

\* the daemons that run their command and have no SIGTERM pending
LiveDaemons == {q \in Pids : proc[q].st = "cmd" /\ ~proc[q].term}

\* one caller, each command begun after the one before it had exited
OneCaller == \A i \in 1..Len(inv) : inv[i].serial

\* C18: a restart run by a single caller, one command after the other, never
\* leaves two live daemons (stated for the runs in which nothing fails)
C18_RestartNoDuplicate ==
    (/\ OneCaller /\ NothingFailed
     /\ \E j \in 1..Len(inv) : inv[j].cmd = RESTART)
        => Cardinality(LiveDaemons) <= 1

(* ---- C19 ---- *)

\* invocation i sends a SIGTERM in this transition
SendsTerm(i) == Terms(inv'[i].sigs) # Terms(inv[i].sigs)

\* C19: a SIGTERM is sent only by the stop of a stop or restart command, once
\* in an invocation, to the pid that stop read from the pidfile, right after
\* the probe of that pid answered running; a process is marked by a SIGTERM
\* only in such a step, and no start or status sends one
C19_TermOnlyByStop ==
    [][/\ \A p \in Pids :
             (At(p, "getpid") /\ proc[p].phase = STOP /\ Ran(p) /\ proc'[p].pc = "probe")
                 => proc'[p].pid = getpid(pidfile).pid
       /\ \A i \in 1..Len(inv) :
             SendsTerm(i) =>
                 \E p \in Pids :
                     LET n == Len(inv[i].sigs)
                     IN  /\ proc[p].inv = i /\ Ran(p) /\ proc[p].gen = 0
                         /\ proc[p].phase = STOP /\ proc[p].pc = "kill"
                         /\ inv[i].cmd \in {STOP, RESTART}
                         /\ Terms(inv[i].sigs) = {}
                         /\ Len(inv'[i].sigs) = n + 1
                         /\ inv'[i].sigs[n + 1].to = proc[p].pid[1]
                         /\ n > 0 /\ inv[i].sigs[n].sig = "NULL"
                         /\ inv[i].sigs[n].to = proc[p].pid[1]
                         /\ inv[i].sigs[n].res # "ESRCH"
       /\ \A q \in Pids :
             (proc'[q].term /\ ~proc[q].term /\ proc[q].st # "free") =>
                 \E i \in 1..Len(inv) :
                     /\ SendsTerm(i)
                     /\ inv'[i].sigs[Len(inv'[i].sigs)].res = "OK"
                     /\ \E p \in Pids : /\ proc[p].inv = i /\ proc[p].pc = "kill"
                                        /\ q \in KillTargets(p, proc[p].pid[1])
       /\ \A i \in 1..Len(inv') :
             /\ Cardinality(Terms(inv'[i].sigs)) <= 1
             /\ inv'[i].cmd \in {START, STATUS} => Terms(inv'[i].sigs) = {}]_vars

\* a restart has probed the recorded daemon, sent it one SIGTERM, found it
\* gone at the probe of its start and gone on to start; the daemon was ended
\* by the signal
C19_Witness ==
    \E j \in 1..Len(inv), i \in 1..Len(inv) :
        LET N == inv[i].pids[3]
        IN  /\ i # j /\ inv[j].cmd = RESTART /\ "Starting" \in inv[j].msgs
            /\ inv[i].wrote /\ inv[i].exit[3] = 143
            /\ inv[j].sigs = <<Sig(N, "NULL", "OK"), Sig(N, "TERM", "OK"),
                               Sig(N, "NULL", "ESRCH")>>

(* ---- C20 ---- *)

\* the start of invocation i has passed its guard
Passed(i) == i <= Len(inv) /\ "Starting" \in inv[i].msgs

\* invocation i has reported one of the failures in F
Reported(i, F) == i <= Len(inv) /\ inv[i].msgs \cap F # {}

\* the second child of invocation i has written its pid and replaced its image
Launched(i) == i <= Len(inv) /\ inv[i].wrote /\ inv[i].execd

\* a process of invocation i was ended by a signal
Signalled(i) == i <= Len(inv) /\ \E g \in 1..3 : inv[i].exit[g] = 143

\* no process stays in the program's code for ever, and the pid is written
\* before the image is replaced
NoneLeftRunning ==
    /\ \A p \in Pids : (proc[p].st = "run") ~> (proc[p].st # "run")
    /\ [](\A i \in 1..Len(inv) : inv[i].execd => inv[i].wrote)

\* C20, as stated: every process of a start eventually exits or execs, and a
\* start that has passed its guard, whose forks succeed, whose redirection
\* targets open and whose pidfile can be written, eventually has its pid in the
\* pidfile and has exec'd the command, the write coming first
C20_StartProgress ==
    /\ NoneLeftRunning
    /\ \A i \in 1..MaxInv :
          Passed(i) ~> \/ Launched(i)
                       \/ Reported(i, {"Fork1Failed", "Fork2Failed", "IOError"})

\* C20, amended: the same, for the starts whose exec succeeds as well and none
\* of whose processes is ended by a signal
C20_StartProgressAmended ==
    /\ NoneLeftRunning
    /\ \A i \in 1..MaxInv :
          Passed(i) ~> \/ Launched(i)
                       \/ Reported(i, Failures)
                       \/ Signalled(i)

\* a start has run to its end with nothing failing: the caller and the first
\* child have exited with status 0, no process of it is left in the program's
\* code, the pidfile holds the daemon's pid and the daemon runs the command
C20_Witness ==
    \E i \in 1..Len(inv) :
        /\ inv[i].cmd = START /\ inv[i].msgs = {"Starting"}
        /\ inv[i].exit = <<0, 0, -1>> /\ Launched(i) /\ Tracked(i)
        /\ \A q \in Pids : proc[q].inv = i => proc[q].st = "cmd"

====
